---- MODULE Spec2Model ----
(***************************************************************************)
(* Model of app/datasets/korean_aihub_sentence_dataset.py:                 *)
(* KoreanTypographyDataset.read_paths (the walk over the image tree and    *)
(* the label tree), __getitem__ (the draw of the positive and the negative *)
(* index) and read_image (the backward probe after a failed decode).       *)
(*                                                                         *)
(* Three specifications share the module:                                  *)
(*   Spec      read_paths, one loop iteration per step, run once with and  *)
(*             once without is_sanity_check on the same root;              *)
(*   SpecGet   __getitem__ on a constructed dataset;                       *)
(*   SpecRead  read_image on one directory listing.                        *)
(***************************************************************************)
EXTENDS Integers, Sequences, FiniteSets, TLC

VARIABLES
    is_train,          \* self.is_train
    is_sanity_check,   \* self.is_sanity_check of the construction under way
    img_tree,          \* listing of image_p: sentence groups, their writer-attempts, their sub-subfolders
    lab_tree,          \* listing of label_p, in its own listing order
    pc,                \* position inside read_paths
    i_sen,             \* enumerate index of the outer loop
    i_tf,              \* enumerate index of the inner loop
    image_path_list,   \* the list built by read_paths
    label_list,        \* the list built by read_paths
    visited,           \* <<i_sen, i_tf>> of every writer-attempt the inner loop has bound so far
    ds_len,            \* per mode: len() of the dataset that construction produced, NoDataset if none
    err,               \* the exception that ended read_paths, "none" if none
    gpc,               \* position inside __getitem__
    g_idx,             \* its argument idx
    pos_idx,           \* the positive index drawn
    neg_idx,           \* the negative index drawn
    rpc,               \* position inside read_image
    files,             \* listing of the folder of image_path_list[idx]: TRUE where Image.open succeeds
    canon,             \* place of image_path_list[idx] in that listing
    image_path,        \* the file read_image is about to open (a place in files)
    io_idx,            \* read_image's io_idx
    probes,            \* number of files picked by the except branch so far
    image              \* place in files of the image that was decoded, 0 while none

pathVars == <<is_train, is_sanity_check, img_tree, lab_tree, pc, i_sen, i_tf,
              image_path_list, label_list, visited, ds_len, err>>
getVars  == <<gpc, g_idx, pos_idx, neg_idx>>
readVars == <<rpc, files, canon, image_path, io_idx, probes, image>>
vars     == <<pathVars, getVars, readVars>>

(***************************************************************************)
(* Bounds of the model.                                                    *)
(***************************************************************************)
MaxSen == 3     \* sentence groups in a corpus
MaxTf  == 3     \* writer-attempts in a sentence group
MaxVar == 3     \* sub-subfolders in a writer-attempt
MaxLen == 4     \* length of label_list in SpecGet
MaxFiles == 4   \* files in a folder in SpecRead
NumIds == 2     \* distinct writer ids in SpecGet

(***************************************************************************)
(* Program constants: the enumerate indices at which the sanity check      *)
(* breaks out of the loops.                                                *)
(***************************************************************************)
TrainTfCut  == 3
ValTfCut    == 1
TrainSenCut == 3
ValSenCut   == 1

NoDataset == -1
NoIndex == -1

Min(a, b) == IF a <= b THEN a ELSE b

(***************************************************************************)
(* The corpus.  A folder name of a writer-attempt is a record: seg is the  *)
(* writer segment, mosa tells whether the name contains the traced marker. *)
(* An image writer-attempt is its name and, per sub-subfolder in listing   *)
(* order, whether glob("*_0150_x*") finds a file there.  A label           *)
(* writer-attempt is its name, its number of sub-subfolders and the       *)
(* person id stored in labels(sent1).json of its first sub-subfolder.      *)
(***************************************************************************)
Name(seg, mosa) == [seg |-> seg, mosa |-> mosa]

DefectKinds == {"img_more", "img_none", "both_none", "no_canon", "lab_drop", "lab_swap", "lab_mosa"}

NoDefect == [sen |-> 0, tf |-> 0, kind |-> "none"]

Hits(d, s, j) == d.sen = s /\ d.tf = j

\* the person id of the label JSON of sentence group s, writer segment j
Person(per_sen, per_seg, s, j) ==
    <<IF per_sen THEN s ELSE 0, IF per_seg THEN j ELSE 0>>

ImgSubs(nVar, d, s, j) ==
    IF Hits(d, s, j) /\ d.kind = "img_more" THEN [k \in 1..(nVar + 1) |-> TRUE]
    ELSE IF Hits(d, s, j) /\ d.kind \in {"img_none", "both_none"} THEN <<>>
    ELSE IF Hits(d, s, j) /\ d.kind = "no_canon" THEN [k \in 1..nVar |-> k # nVar]
    ELSE [k \in 1..nVar |-> TRUE]

ImgTf(shape, nVar, d, s, j) ==
    [name |-> Name(j, shape[j]), subs |-> ImgSubs(nVar, d, s, j)]

LabTf(shape, nVar, d, per_sen, per_seg, s, j) ==
    [name   |-> Name(j, IF Hits(d, s, j) /\ d.kind = "lab_mosa" THEN ~shape[j] ELSE shape[j]),
     subs   |-> IF Hits(d, s, j) /\ d.kind = "both_none" THEN 0 ELSE nVar,
     person |-> Person(per_sen, per_seg, s, j)]

\* the sequence q without its j-th element
Without(q, j) == [k \in 1..(Len(q) - 1) |-> IF k < j THEN q[k] ELSE q[k + 1]]

\* the sequence q with its elements at at and at+1 exchanged (at = 0: unchanged)
Swapped(q, at) ==
    [k \in 1..Len(q) |->
        IF at > 0 /\ k = at THEN q[at + 1]
        ELSE IF at > 0 /\ k = at + 1 THEN q[at]
        ELSE q[k]]

ImgTree(nSen, shape, nVar, d) ==
    [s \in 1..nSen |->
        [sen |-> s, tfs |-> [j \in 1..Len(shape) |-> ImgTf(shape, nVar, d, s, j)]]]

LabTree(nSen, shape, nVar, d, per_sen, per_seg, swap) ==
    Swapped(
        [s \in 1..nSen |->
            [sen |-> s,
             tfs |-> LET all == [j \in 1..Len(shape) |->
                                    LabTf(shape, nVar, d, per_sen, per_seg, s, j)]
                     IN IF d.sen = s /\ d.kind = "lab_drop" THEN Without(all, d.tf)
                        ELSE IF d.sen = s /\ d.kind = "lab_swap" /\ d.tf < Len(all)
                        THEN Swapped(all, d.tf)
                        ELSE all]],
        swap)

Shapes == UNION {[1..n -> BOOLEAN] : n \in 0..MaxTf}

(***************************************************************************)
(* read_paths                                                              *)
(***************************************************************************)
\* zip stops with the shorter of the two listings
ZipLen(a, b) == Min(Len(a), Len(b))

ImgSen == img_tree[i_sen + 1]
LabSen == lab_tree[i_sen + 1]
ImgTfCur == ImgSen.tfs[i_tf + 1]
LabTfCur == LabSen.tfs[i_tf + 1]

\* mutant: the traced marker is never looked for
HasMosa_never(name) == FALSE

\* "모사" in str(img_tf.parts[-1])
HasMosa(name) == name.mosa

\* mutant: the count assertion is left out
CountAssert_off(img, lab) == TRUE

\* mutant: the count assertion compares with <= instead of ==
CountAssert_le(img, lab) == Len(img.subs) <= lab.subs

\* assert len(img_tf) == len(lab_tf)
CountAssert(img, lab) == Len(img.subs) = lab.subs

\* mutant: the writer-segment assertion is left out
SegAssert_off(img, lab) == TRUE

\* image_path.parts[-3] and label_path.parts[-3] are the two writer-attempt folder names
SegAssert(img, lab) == img.name = lab.name

\* the image paths the loop over zip(img_tf, lab_tf) appends
NewPaths(sen, img, lab) ==
    [k \in 1..Min(Len(img.subs), lab.subs) |-> [sen |-> sen, tf |-> img.name, sub |-> k]]

\* [label] * number_of_labels, label read from the JSON of lab_tf[0]
NewLabels(lab) == [k \in 1..lab.subs |-> lab.person]

\* The exception the body of the inner loop raises for a writer-attempt that is
\* not skipped, "none" if it raises none.
AttemptError(img, lab) ==
    IF ~CountAssert(img, lab)
    THEN \* the message of the assertion indexes img_tf[0] and lab_tf[0]
         IF Len(img.subs) = 0 \/ lab.subs = 0 THEN "IndexError" ELSE "count_assert"
    ELSE IF lab.subs = 0 THEN "IndexError"                \* lab_tf[0]
    ELSE IF Min(Len(img.subs), lab.subs) = 0 THEN "none"  \* the loop body never runs
    ELSE IF ~img.subs[1] THEN "IndexError"                \* list(...glob(...))[0]
    ELSE IF ~SegAssert(img, lab) THEN "seg_assert"
    ELSE IF \E k \in 1..Min(Len(img.subs), lab.subs) : ~img.subs[k] THEN "IndexError"
    ELSE "none"

\* mutant: the flag is read inverted
SanityOn_inverted == ~is_sanity_check

\* self.is_sanity_check is not None and self.is_sanity_check is True
SanityOn == is_sanity_check

\* the break at the end of the body of the inner loop
BreakTf ==
    SanityOn /\ ((is_train /\ i_tf = TrainTfCut) \/ (~is_train /\ i_tf = ValTfCut))

\* the break at the end of the body of the outer loop
BreakSen ==
    SanityOn /\ ((is_train /\ i_sen = TrainSenCut) \/ (~is_train /\ i_sen = ValSenCut))

\* KoreanTypographyDataset(root_dir, transform, is_train, is_sanity_check) starts read_paths;
\* is_sanity_check = None acts as False (line 98) and is modelled as FALSE
Construct(s) ==
    /\ pc \in {"idle", "done"}
    /\ ds_len[s] = NoDataset
    /\ is_sanity_check' = s
    /\ pc' = "sen"
    /\ i_sen' = 0
    /\ i_tf' = 0
    /\ image_path_list' = <<>>
    /\ label_list' = <<>>
    /\ visited' = <<>>
    /\ UNCHANGED <<is_train, img_tree, lab_tree, ds_len, err>>

\* the outer zip yields the next pair of sentence groups
EnterSen ==
    /\ pc = "sen"
    /\ i_sen < ZipLen(img_tree, lab_tree)
    /\ pc' = "tf"
    /\ i_tf' = 0
    /\ UNCHANGED <<is_train, is_sanity_check, img_tree, lab_tree, i_sen,
                   image_path_list, label_list, visited, ds_len, err>>

\* the inner zip yields a writer-attempt whose image folder name has the traced marker: continue
SkipTraced ==
    /\ pc = "tf"
    /\ i_tf < ZipLen(ImgSen.tfs, LabSen.tfs)
    /\ HasMosa(ImgTfCur.name)
    /\ visited' = Append(visited, <<i_sen, i_tf>>)
    /\ i_tf' = i_tf + 1
    /\ UNCHANGED <<is_train, is_sanity_check, img_tree, lab_tree, pc, i_sen,
                   image_path_list, label_list, ds_len, err>>

\* the body of the inner loop runs to its end for the next writer-attempt
ProcessAttempt ==
    /\ pc = "tf"
    /\ i_tf < ZipLen(ImgSen.tfs, LabSen.tfs)
    /\ ~HasMosa(ImgTfCur.name)
    /\ AttemptError(ImgTfCur, LabTfCur) = "none"
    /\ image_path_list' = image_path_list \o NewPaths(ImgSen.sen, ImgTfCur, LabTfCur)
    /\ label_list' = label_list \o NewLabels(LabTfCur)
    /\ visited' = Append(visited, <<i_sen, i_tf>>)
    /\ IF BreakTf
       THEN pc' = "sen_end" /\ i_tf' = i_tf
       ELSE pc' = "tf" /\ i_tf' = i_tf + 1
    /\ UNCHANGED <<is_train, is_sanity_check, img_tree, lab_tree, i_sen, ds_len, err>>

\* the body of the inner loop raises: the exception leaves read_paths and __init__
AbortAttempt ==
    /\ pc = "tf"
    /\ i_tf < ZipLen(ImgSen.tfs, LabSen.tfs)
    /\ ~HasMosa(ImgTfCur.name)
    /\ AttemptError(ImgTfCur, LabTfCur) # "none"
    /\ err' = AttemptError(ImgTfCur, LabTfCur)
    /\ pc' = "aborted"
    /\ visited' = Append(visited, <<i_sen, i_tf>>)
    /\ UNCHANGED <<is_train, is_sanity_check, img_tree, lab_tree, i_sen, i_tf,
                   image_path_list, label_list, ds_len>>

\* the inner zip is exhausted
EndTf ==
    /\ pc = "tf"
    /\ i_tf >= ZipLen(ImgSen.tfs, LabSen.tfs)
    /\ pc' = "sen_end"
    /\ UNCHANGED <<is_train, is_sanity_check, img_tree, lab_tree, i_sen, i_tf,
                   image_path_list, label_list, visited, ds_len, err>>

\* the sanity check at the end of the body of the outer loop
EndSen ==
    /\ pc = "sen_end"
    /\ IF BreakSen
       THEN pc' = "fin" /\ i_sen' = i_sen
       ELSE pc' = "sen" /\ i_sen' = i_sen + 1
    /\ UNCHANGED <<is_train, is_sanity_check, img_tree, lab_tree, i_tf,
                   image_path_list, label_list, visited, ds_len, err>>

\* after the loops: the final assertion, the return, and __init__ keeps the two lists
Finish ==
    /\ \/ pc = "fin"
       \/ pc = "sen" /\ i_sen >= ZipLen(img_tree, lab_tree)
    /\ IF Len(image_path_list) = Len(label_list)
       THEN /\ pc' = "done"
            /\ ds_len' = [ds_len EXCEPT ![is_sanity_check] = Len(label_list)]
            /\ err' = err
       ELSE /\ pc' = "aborted"
            /\ err' = "final_assert"
            /\ ds_len' = ds_len
    /\ UNCHANGED <<is_train, is_sanity_check, img_tree, lab_tree, i_sen, i_tf,
                   image_path_list, label_list, visited>>

GetIdle == gpc = "idle" /\ g_idx = NoIndex /\ pos_idx = NoIndex /\ neg_idx = NoIndex

ReadIdle ==
    /\ rpc = "idle" /\ files = <<>> /\ canon = 0 /\ image_path = 0
    /\ io_idx = -1 /\ probes = 0 /\ image = 0

Init ==
    /\ is_train \in BOOLEAN
    /\ is_sanity_check = FALSE
    /\ \/ \E nSen \in 0..MaxSen, shape \in Shapes, nVar \in {1, MaxVar} :
            \* a corpus whose two trees agree
            /\ img_tree = ImgTree(nSen, shape, nVar, NoDefect)
            /\ lab_tree = LabTree(nSen, shape, nVar, NoDefect, FALSE, TRUE, 0)
       \/ \E nSen \in 0..MaxSen, shape \in Shapes, swap \in 1..(MaxSen - 1), per_sen \in BOOLEAN :
            \* the label tree lists two of its sentence groups in the other order
            /\ swap < nSen
            /\ img_tree = ImgTree(nSen, shape, 1, NoDefect)
            /\ lab_tree = LabTree(nSen, shape, 1, NoDefect, per_sen, TRUE, swap)
       \/ \E long \in [1..(TrainTfCut + 2) -> BOOLEAN] :
            \* one sentence group and one writer-attempt more than the training cut-offs let through
            /\ img_tree = ImgTree(TrainSenCut + 2, long, 1, NoDefect)
            /\ lab_tree = LabTree(TrainSenCut + 2, long, 1, NoDefect, FALSE, TRUE, 0)
       \/ \E nSen \in 0..MaxSen, shape \in Shapes, s \in 1..MaxSen, j \in 1..MaxTf,
              kind \in DefectKinds :
            \* one writer-attempt of the corpus is damaged
            /\ s <= nSen /\ j <= Len(shape)
            /\ LET d == [sen |-> s, tf |-> j, kind |-> kind]
               IN /\ img_tree = ImgTree(nSen, shape, MaxVar, d)
                  /\ lab_tree = LabTree(nSen, shape, MaxVar, d, FALSE, TRUE, 0)
    /\ pc = "idle"
    /\ i_sen = 0
    /\ i_tf = 0
    /\ image_path_list = <<>>
    /\ label_list = <<>>
    /\ visited = <<>>
    /\ ds_len = [s \in BOOLEAN |-> NoDataset]
    /\ err = "none"
    /\ GetIdle
    /\ ReadIdle

Next ==
    \/ \E s \in BOOLEAN : Construct(s) /\ UNCHANGED <<getVars, readVars>>
    \/ EnterSen /\ UNCHANGED <<getVars, readVars>>
    \/ SkipTraced /\ UNCHANGED <<getVars, readVars>>
    \/ ProcessAttempt /\ UNCHANGED <<getVars, readVars>>
    \/ AbortAttempt /\ UNCHANGED <<getVars, readVars>>
    \/ EndTf /\ UNCHANGED <<getVars, readVars>>
    \/ EndSen /\ UNCHANGED <<getVars, readVars>>
    \/ Finish /\ UNCHANGED <<getVars, readVars>>

Spec == Init /\ [][Next]_vars

(***************************************************************************)
(* __getitem__                                                             *)
(***************************************************************************)
\* self.label_list[i], i counted from 0
LabelAt(i) == label_list[i + 1]

Indices == 0..(Len(label_list) - 1)

\* mutant: the anchor is not deleted from the positive candidates
PosIndices_keep(idx) == {i \in Indices : LabelAt(i) = LabelAt(idx)}

\* np.where(label_arr == anchor_label)[0] without the places where it equals idx
PosIndices(idx) == {i \in Indices : LabelAt(i) = LabelAt(idx)} \ {idx}

\* mutant: the negative candidates are the indices other than idx
NegIndices_any(idx) == Indices \ {idx}

\* np.where(label_arr != anchor_label)[0]
NegIndices(idx) == {i \in Indices : LabelAt(i) # LabelAt(idx)}

\* __getitem__(idx) up to the two calls of np.random.choice, which raises
\* ValueError on an empty array
GetItemDraw(idx) ==
    /\ gpc \in {"idle", "returned", "ValueError", "IndexError"}
    /\ idx \in Indices
    /\ g_idx' = idx
    /\ IF PosIndices(idx) = {}
       THEN gpc' = "ValueError" /\ pos_idx' = NoIndex /\ neg_idx' = NoIndex
       ELSE \E p \in PosIndices(idx) :
              /\ pos_idx' = p
              /\ IF NegIndices(idx) = {}
                 THEN gpc' = "ValueError" /\ neg_idx' = NoIndex
                 ELSE gpc' = "drawn" /\ neg_idx' \in NegIndices(idx)

\* the rest of __getitem__: the three calls of read_image, each of which returns
\* an image or raises IndexError (see SpecRead), the transform, the tensors, the return
GetItemReturn ==
    /\ gpc = "drawn"
    /\ \E read_ok \in BOOLEAN : gpc' = IF read_ok THEN "returned" ELSE "IndexError"
    /\ UNCHANGED <<g_idx, pos_idx, neg_idx>>

\* a dataset as read_paths leaves it: one writer id per image path
InitGet ==
    /\ is_train = TRUE
    /\ is_sanity_check = FALSE
    /\ img_tree = <<>>
    /\ lab_tree = <<>>
    /\ pc = "done"
    /\ i_sen = 0
    /\ i_tf = 0
    /\ \E n \in 0..MaxLen :
         /\ label_list \in [1..n -> 1..NumIds]
         /\ image_path_list = [k \in 1..n |-> [sen |-> 1, tf |-> Name(k, FALSE), sub |-> 1]]
         /\ ds_len = [s \in BOOLEAN |-> IF s THEN NoDataset ELSE n]
    /\ visited = <<>>
    /\ err = "none"
    /\ GetIdle
    /\ ReadIdle

NextGet ==
    \/ \E idx \in Indices : GetItemDraw(idx) /\ UNCHANGED <<pathVars, readVars>>
    \/ GetItemReturn /\ UNCHANGED <<pathVars, readVars>>

SpecGet == InitGet /\ [][NextGet]_vars

(***************************************************************************)
(* read_image                                                              *)
(***************************************************************************)
\* Image.open succeeds on the file at place p of the listing (0: the file is not there)
Decodable(p) == p # 0 /\ files[p]

\* mutant: io_idx is not decremented
NextIoIdx_stuck(io) == io

\* io_idx -= 1
NextIoIdx(io) == io - 1

\* files[io] with io < 0 is in range
InRange(io) == -io <= Len(files)

\* the place, counted from 1, of files[io] with io < 0
PlaceOf(io) == Len(files) + io + 1

\* read_image(idx) starts: image_path = self.image_path_list[idx], io_idx = -1
ReadImage ==
    /\ rpc = "idle"
    /\ rpc' = "try"
    /\ image_path' = canon
    /\ io_idx' = -1
    /\ UNCHANGED <<files, canon, probes, image>>

\* Image.open succeeds: the loop ends and the image is returned
OpenOk ==
    /\ rpc = "try"
    /\ Decodable(image_path)
    /\ image' = image_path
    /\ rpc' = "returned"
    /\ UNCHANGED <<files, canon, image_path, io_idx, probes>>

\* Image.open raises and the except branch picks files[io_idx]
Probe ==
    /\ rpc = "try"
    /\ ~Decodable(image_path)
    /\ InRange(NextIoIdx(io_idx))
    /\ io_idx' = NextIoIdx(io_idx)
    /\ image_path' = PlaceOf(NextIoIdx(io_idx))
    /\ probes' = probes + 1
    /\ UNCHANGED <<rpc, files, canon, image>>

\* Image.open raises and files[io_idx] is out of range: IndexError leaves read_image
Exhausted ==
    /\ rpc = "try"
    /\ ~Decodable(image_path)
    /\ ~InRange(NextIoIdx(io_idx))
    /\ io_idx' = NextIoIdx(io_idx)
    /\ rpc' = "IndexError"
    /\ UNCHANGED <<files, canon, image_path, probes, image>>

\* one folder: its listing, and the place in it of the file read_paths chose
\* (0 if that file is gone)
InitRead ==
    /\ is_train = TRUE
    /\ is_sanity_check = FALSE
    /\ img_tree = <<>>
    /\ lab_tree = <<>>
    /\ pc = "done"
    /\ i_sen = 0
    /\ i_tf = 0
    /\ image_path_list = <<>>
    /\ label_list = <<>>
    /\ visited = <<>>
    /\ ds_len = [s \in BOOLEAN |-> NoDataset]
    /\ err = "none"
    /\ GetIdle
    /\ \E n \in 0..MaxFiles :
         /\ files \in [1..n -> BOOLEAN]
         /\ canon \in 0..n
    /\ rpc = "idle"
    /\ image_path = 0
    /\ io_idx = -1
    /\ probes = 0
    /\ image = 0

NextRead ==
    \/ ReadImage /\ UNCHANGED <<pathVars, getVars>>
    \/ OpenOk /\ UNCHANGED <<pathVars, getVars>>
    \/ Probe /\ UNCHANGED <<pathVars, getVars>>
    \/ Exhausted /\ UNCHANGED <<pathVars, getVars>>

SpecRead == InitRead /\ [][NextRead]_vars

\* the interpreter keeps running read_image until it returns or raises
SpecReadFair == SpecRead /\ WF_vars(NextRead)

(***************************************************************************)
(* Properties                                                              *)
(***************************************************************************)
Paths == 1..Len(image_path_list)

\* the image and the label writer-attempt the inner zip paired at v = <<i_sen, i_tf>>
ImgAt(v) == img_tree[v[1] + 1].tfs[v[2] + 1]
LabAt(v) == lab_tree[v[1] + 1].tfs[v[2] + 1]

\* the person ids of the label JSONs of the writer-attempts named name in a label sentence group
PersonsOf(lab_sen, name) ==
    {lab_sen.tfs[a].person : a \in {b \in 1..Len(lab_sen.tfs) : lab_sen.tfs[b].name = name}}

\* C1: when __getitem__(i) returns a triplet, the positive index differs from i
\* and has the writer id of i, and the negative index has another writer id.
C1_TripletWellFormed ==
    gpc = "returned" =>
        /\ pos_idx \in Indices /\ neg_idx \in Indices
        /\ pos_idx # g_idx
        /\ LabelAt(pos_idx) = LabelAt(g_idx)
        /\ LabelAt(neg_idx) # LabelAt(g_idx)

C1_Witness == gpc = "returned" /\ Len(label_list) >= 3

\* the writer id of index i occurs exactly once in label_list
LoneWriter(i) == Cardinality({j \in Indices : LabelAt(j) = LabelAt(i)}) = 1

\* C5: for an anchor whose writer id occurs once, __getitem__ ends in the
\* ValueError of np.random.choice: no triplet is returned and no positive
\* index is drawn, neither the anchor nor an index of another writer.
C5_LoneWriterFails ==
    (gpc # "idle" /\ LoneWriter(g_idx)) =>
        /\ gpc = "ValueError"
        /\ pos_idx = NoIndex

C5_Witness == gpc = "ValueError" /\ LoneWriter(g_idx) /\ Len(label_list) >= 2

\* C2 as claimed: after read_paths has completed, every Sample's writer id is the
\* person id of the label JSON of the same sentence group and the same
\* writer-attempt as its image, whatever the listing orders.
C2_OwnGroupLabel ==
    pc = "done" =>
        \A k \in Paths :
            \E g \in 1..Len(lab_tree) :
                /\ lab_tree[g].sen = image_path_list[k].sen
                /\ label_list[k] \in PersonsOf(lab_tree[g], image_path_list[k].tf)

\* C2 as amended: after read_paths has completed, every Sample's writer id is the
\* person id of the label JSON of the writer-attempt of the same folder name in
\* the label sentence group listed at the place where the image tree lists the
\* Sample's sentence group.
C2_SamePlaceLabel ==
    pc = "done" =>
        \A k \in Paths :
            \E g \in 1..ZipLen(img_tree, lab_tree) :
                /\ img_tree[g].sen = image_path_list[k].sen
                /\ label_list[k] \in PersonsOf(lab_tree[g], image_path_list[k].tf)

C2_Witness ==
    /\ pc = "done"
    /\ \E k \in Paths : \E g \in 1..ZipLen(img_tree, lab_tree) :
         /\ img_tree[g].sen = image_path_list[k].sen
         /\ lab_tree[g].sen # image_path_list[k].sen

BothDone == ds_len[TRUE] # NoDataset /\ ds_len[FALSE] # NoDataset

\* a root of 2 sentence groups x 2 writer-attempts without the traced marker x 3 sub-subfolders
Is2x2x3 ==
    /\ Len(img_tree) = 2 /\ Len(lab_tree) = 2
    /\ \A g \in 1..2 :
         /\ Len(img_tree[g].tfs) = 2 /\ Len(lab_tree[g].tfs) = 2
         /\ \A a \in 1..2 :
              /\ ~img_tree[g].tfs[a].name.mosa
              /\ img_tree[g].tfs[a].name = lab_tree[g].tfs[a].name
              /\ img_tree[g].tfs[a].subs = <<TRUE, TRUE, TRUE>>
              /\ lab_tree[g].tfs[a].subs = 3

\* C3 as claimed: on a root where both constructions complete, the one with the
\* sanity check resolves strictly fewer Samples than the one without; the
\* 2 x 2 x 3 training root yields fewer than 12 Samples with the sanity check.
C3_StrictlyFewer ==
    /\ BothDone => ds_len[TRUE] < ds_len[FALSE]
    /\ (Is2x2x3 /\ is_train /\ ds_len[TRUE] # NoDataset) => ds_len[TRUE] < 12

\* C3 as amended: on a root where both constructions complete, the one with the
\* sanity check resolves at most as many Samples as the one without; the
\* 2 x 2 x 3 training root yields all 12 Samples with the sanity check.
C3_AtMostAsMany ==
    /\ BothDone => ds_len[TRUE] <= ds_len[FALSE]
    /\ (Is2x2x3 /\ is_train /\ ds_len[TRUE] # NoDataset) => ds_len[TRUE] = 12

C3_Witness == BothDone /\ is_train /\ ds_len[TRUE] < ds_len[FALSE]

RECURSIVE LabelsContributed(_, _)
\* the number of label sub-subfolders of the first n visited writer-attempts
\* whose image folder name has no traced marker
LabelsContributed(v, n) ==
    IF n = 0 THEN 0
    ELSE LabelsContributed(v, n - 1)
         + (IF ImgAt(v[n]).name.mosa THEN 0 ELSE LabAt(v[n]).subs)

\* C6: no path of image_path_list lies under a writer-attempt folder whose name
\* has the traced marker, and the entries of label_list all come from the
\* visited writer-attempts without the marker.
C6_TracedExcluded ==
    /\ \A k \in Paths : ~image_path_list[k].tf.mosa
    /\ pc # "aborted" => Len(label_list) = LabelsContributed(visited, Len(visited))

C6_Witness ==
    /\ pc = "done"
    /\ Len(label_list) > 0
    /\ \E n \in 1..Len(visited) : ImgAt(visited[n]).name.mosa

\* C7: the two lists have the same length after every writer-attempt and at the
\* end of read_paths, and the final assertion never fails.
C7_EqualLengths ==
    /\ Len(image_path_list) = Len(label_list)
    /\ err # "final_assert"

C7_Witness == pc = "done" /\ Len(visited) >= 2 /\ Len(label_list) >= 2

\* the visited writer-attempt v is not skipped and its counts or its writer segments differ
Mismatch(v) ==
    /\ ~ImgAt(v).name.mosa
    /\ \/ Len(ImgAt(v).subs) # LabAt(v).subs
       \/ ImgAt(v).name # LabAt(v).name

\* C8: a visited writer-attempt without the traced marker whose counts or writer
\* segments differ ends the construction: it is the last one enumerated and
\* no dataset is produced.
C8_AbortOnMismatch ==
    \A n \in 1..Len(visited) :
        Mismatch(visited[n]) =>
            /\ pc = "aborted"
            /\ n = Len(visited)
            /\ ds_len[is_sanity_check] = NoDataset

C8_Witness ==
    /\ pc = "aborted"
    /\ Len(visited) >= 2
    /\ Mismatch(visited[Len(visited)])
    /\ Len(label_list) > 0

\* C10 as claimed: with the sanity check, no writer-attempt past the cut-off
\* place of its sentence group, and no sentence group past the cut-off place,
\* is enumerated or contributes a Sample.
C10_SanityCutoff ==
    is_sanity_check =>
        \A n \in 1..Len(visited) :
            /\ visited[n][1] <= (IF is_train THEN TrainSenCut ELSE ValSenCut)
            /\ visited[n][2] <= (IF is_train THEN TrainTfCut ELSE ValTfCut)

\* the decodable files listed before the file read_paths chose
Earlier == {j \in 1..(canon - 1) : files[j]}

\* C4 as claimed: when the chosen file cannot be decoded and a file listed before
\* it can, read_image returns the nearest such file.
C4_NearestBefore ==
    (rpc \in {"returned", "IndexError"} /\ ~Decodable(canon) /\ Earlier # {}) =>
        /\ rpc = "returned"
        /\ image \in Earlier
        /\ \A j \in Earlier : j <= image

\* C9: read_image ends; it picks at most as many files as the folder lists,
\* returns only a decoded image, and raises only when no file it opened decodes.
C9_ReadTerminates ==
    /\ [](probes <= Len(files))
    /\ [](rpc = "returned" => Decodable(image))
    /\ [](rpc = "IndexError" =>
            /\ image = 0
            /\ ~Decodable(canon)
            /\ \A j \in 1..(Len(files) - 1) : ~files[j])
    /\ (rpc = "try" ~> rpc \in {"returned", "IndexError"})

C9_Witness == rpc = "IndexError" /\ Len(files) >= 3 /\ probes = Len(files) - 1

====
